---------------------------- MODULE Spec2Model ----------------------------
(* A state-machine model of DriveHandler (src/src/DriveHandler.cpp):       *)
(* construction (path classification, classification sector source),       *)
(* recoverDrive (filesystem / partition-scheme detection, partition        *)
(* extraction, closeDrive, one recovery pass per FAT32 target).            *)
EXTENDS Integers, Sequences, FiniteSets, TLC

(***************************************************************************)
(* Bounds of the model                                                     *)
(***************************************************************************)
\* largest NumberOfEntries of a GPT header in the modelled images
MaxEntries == 5
\* cap on the number of SectorReader::readSector calls of one run (a loop
\* that never advances would otherwise count for ever)
MaxReads == 6
\* recoverDrive calls made on one handler after the first
MaxRecalls == 1

(***************************************************************************)
(* Characters and strings.  A string is a sequence of characters; a        *)
(* character is a one-character TLA+ string, the NUL byte is NUL.          *)
(***************************************************************************)
NUL == "NUL"

LowerCase ==
  <<"a","b","c","d","e","f","g","h","i","j","k","l","m",
    "n","o","p","q","r","s","t","u","v","w","x","y","z">>

UpperCase ==
  <<"A","B","C","D","E","F","G","H","I","J","K","L","M",
    "N","O","P","Q","R","S","T","U","V","W","X","Y","Z">>

DigitChars == {"0","1","2","3","4","5","6","7","8","9"}

\* std::isdigit
isdigit(c) == c \in DigitChars

\* std::iswalpha
iswalpha(c) == \E k \in 1..26 : c = LowerCase[k] \/ c = UpperCase[k]

\* std::towupper on one character
towupper(c) ==
  IF \E k \in 1..26 : c = LowerCase[k]
    THEN UpperCase[CHOOSE k \in 1..26 : c = LowerCase[k]]
    ELSE c

\* std::transform(..., std::towupper) over a whole string
ToUpperString(s) == [k \in 1..Len(s) |-> towupper(s[k])]

\* std::wstring::find(needle) != npos
Contains(s, needle) ==
  \E k \in 0..(Len(s) - Len(needle)) :
     \A m \in 1..Len(needle) : s[k + m] = needle[m]

\* the literal L"\\\\.\\"
DevicePrefix == <<"\\", "\\", ".", "\\">>

STR_PhysicalDrive ==
  <<"P","h","y","s","i","c","a","l","D","r","i","v","e">>

STR_PHYSICALDRIVE ==
  <<"P","H","Y","S","I","C","A","L","D","R","I","V","E">>

(***************************************************************************)
(* determineDriveType: the drive type and the canonical config.drivePath   *)
(***************************************************************************)
PHYSICAL_DRIVE == "PHYSICAL_DRIVE"
LOGICAL_DRIVE == "LOGICAL_DRIVE"
UNKNOWN_DRIVE == "UNKNOWN_DRIVE"

\* first branch: exactly one character, a digit
IsSingleDigitPath(p) == Len(p) = 1 /\ isdigit(p[1])

\* second branch: contains PHYSICALDRIVE (any case) and ends in a digit
IsPhysicalDrivePath(p) ==
  /\ Contains(ToUpperString(p), STR_PHYSICALDRIVE)
  /\ isdigit(ToUpperString(p)[Len(p)])

\* third branch: a letter, or a letter and a colon
IsLogicalPath(p) ==
  \/ Len(p) = 1 /\ iswalpha(ToUpperString(p)[1])
  \/ Len(p) = 2 /\ iswalpha(ToUpperString(p)[1]) /\ ToUpperString(p)[2] = ":"

determineDriveType(p) ==
  IF IsSingleDigitPath(p) THEN
    [type |-> PHYSICAL_DRIVE, path |-> DevicePrefix \o STR_PhysicalDrive \o p]
  ELSE IF IsPhysicalDrivePath(p) THEN
    [type |-> PHYSICAL_DRIVE,
     path |-> DevicePrefix \o STR_PhysicalDrive \o <<ToUpperString(p)[Len(p)]>>]
  ELSE IF IsLogicalPath(p) THEN
    [type |-> LOGICAL_DRIVE,
     path |-> DevicePrefix \o ToUpperString(p)
                \o (IF Len(p) = 1 THEN <<":">> ELSE <<>>)]
  ELSE
    [type |-> UNKNOWN_DRIVE, path |-> p]

(***************************************************************************)
(* Enumerations and on-disk constants                                      *)
(***************************************************************************)
MBR_SCHEME == "MBR_SCHEME"
GPT_SCHEME == "GPT_SCHEME"
UNKNOWN_SCHEME == "UNKNOWN_SCHEME"

\* FilesystemType enumerators.  getFSTypeFromMBRPartition casts the MBR type
\* byte to this enumeration, so a type byte is written as the enumerator it
\* casts to, and as its hexadecimal spelling when it is no enumerator used
\* by DriveHandler.cpp
FAT32_TYPE == "FAT32_TYPE"
NTFS_TYPE == "NTFS_TYPE"
EXFAT_TYPE == "EXFAT_TYPE"
EXT4_TYPE == "EXT4_TYPE"
UNKNOWN_TYPE == "UNKNOWN_TYPE"

\* the type byte of an unused slot, and of a protective-MBR slot
TYPE_EMPTY == "0x00"
TYPE_PROTECTIVE == "0xEE"

\* the value isMBR compares mbr.signature with (0xAA55)
MBR_SIGNATURE == 43605

\* the literal gptSignature[] = "EFI PART" without its terminator
EFI_PART == <<"E","F","I"," ","P","A","R","T">>

ZeroGUID == [k \in 1..16 |-> 0]

\* the 16 bytes getFSTypeFromGPTPartition compares a type GUID with (the
\* basic-data partition type, in disk byte order)
GUID_FAT32_TYPE ==
  <<162,160,208,235,229,185,51,68,135,192,104,182,183,38,153,199>>

\* a type GUID that is zero in all bytes but the last
GUID_TailOnly == [k \in 1..16 |-> IF k = 16 THEN 1 ELSE 0]

TypeGUIDs == {ZeroGUID, GUID_FAT32_TYPE, GUID_TailOnly}

(***************************************************************************)
(* The device images DriveHandler is run against                          *)
(***************************************************************************)
\* the values a partition-table slot k of sector 0 takes
MBRSlots(k) ==
  { [Type |-> TYPE_EMPTY, StartLBA |-> 0,        TotalSectors |-> 0],
    [Type |-> FAT32_TYPE, StartLBA |-> 2048 * k, TotalSectors |-> 1000],
    [Type |-> NTFS_TYPE,  StartLBA |-> 2048 * k, TotalSectors |-> 1000],
    [Type |-> FAT32_TYPE, StartLBA |-> 2048 * k, TotalSectors |-> 0] }

MBRTables ==
  { <<a, b, c, d>> : a \in MBRSlots(1), b \in MBRSlots(2),
                     c \in MBRSlots(3), d \in MBRSlots(4) }

\* the partition table of a protective MBR
ProtectiveTable ==
  << [Type |-> TYPE_PROTECTIVE, StartLBA |-> 1, TotalSectors |-> 1000],
     [Type |-> TYPE_EMPTY, StartLBA |-> 0, TotalSectors |-> 0],
     [Type |-> TYPE_EMPTY, StartLBA |-> 0, TotalSectors |-> 0],
     [Type |-> TYPE_EMPTY, StartLBA |-> 0, TotalSectors |-> 0] >>

\* the last two bytes of sector 0, in disk order
TrailerBytes == { <<85, 170>>, <<170, 85>>, <<0, 0>> }

\* the first eight bytes of sector 1
Sector1Signatures ==
  { EFI_PART,
    <<"E","F","I"," ","P","A","R","X">>,
    [k \in 1..8 |-> NUL] }

\* SizeOfEntry values of a header: the format's 128, one that does not
\* divide a sector, one larger than a sector
EntrySizes == {120, 128, 2048}

\* the sector sizes the device reports
SectorSizes == {512, 1024}

\* slot k of the partition-entry array
GPTSlot(k, guid) ==
  [PartitionTypeGUID |-> guid, StartingLBA |-> 4096 * k]

GPTEntryArrays(n) ==
  { [k \in 1..n |-> GPTSlot(k, g[k])] : g \in [1..n -> TypeGUIDs] }

\* images with "EFI PART" in sector 1 (the partition table of sector 0 is
\* the protective one) and images without
PhysicalImages ==
  { [kind |-> "physical", table |-> ProtectiveTable, trailer |-> t,
     Signature |-> EFI_PART, PartitionEntryLBA |-> 2,
     NumberOfEntries |-> Len(e), SizeOfEntry |-> z, entries |-> e,
     label |-> <<>>] :
       t \in TrailerBytes, z \in EntrySizes,
       e \in UNION { GPTEntryArrays(n) : n \in 0..MaxEntries } }
  \cup
  { [kind |-> "physical", table |-> tb, trailer |-> t,
     Signature |-> sg, PartitionEntryLBA |-> 0,
     NumberOfEntries |-> 0, SizeOfEntry |-> 0, entries |-> <<>>,
     label |-> <<>>] :
       tb \in MBRTables, t \in TrailerBytes,
       sg \in Sector1Signatures \ {EFI_PART} }

\* the 8-byte FileSystemType field of a volume's boot sector
Labels ==
  { <<"F","A","T","3","2"," "," "," ">>,
    <<"F","A","T","3","2",NUL,NUL,NUL>>,
    <<"N","T","F","S"," "," "," "," ">>,
    <<"N","T","F","S",NUL,NUL,NUL,NUL>>,
    <<"e","x","F","A","T"," "," "," ">>,
    <<"E","X","T","4"," "," "," "," ">>,
    <<"F","A","T","3","2","X","Y","Z">>,
    <<"F","A","T"," ","3","2"," "," ">>,
    <<"F","A","T","1","6"," "," "," ">>,
    <<"f","a","t","3","2"," "," "," ">>,
    [k \in 1..8 |-> " "],
    [k \in 1..8 |-> NUL] }

LogicalImages ==
  { [kind |-> "logical", table |-> <<>>, trailer |-> <<>>,
     Signature |-> <<>>, PartitionEntryLBA |-> 0,
     NumberOfEntries |-> 0, SizeOfEntry |-> 0, entries |-> <<>>,
     label |-> l] : l \in Labels }

NoImage ==
  [kind |-> "none", table |-> <<>>, trailer |-> <<>>,
   Signature |-> <<>>, PartitionEntryLBA |-> 0,
   NumberOfEntries |-> 0, SizeOfEntry |-> 0, entries |-> <<>>,
   label |-> <<>>]

\* the user-supplied drive paths
DrivePaths ==
  { <<>>, <<"0">>, <<"1","2">>, <<"c">>, <<"D">>, <<"e",":">>,
    <<"c","d">>, <<"1",":">>, <<":">>, <<"C",":","\\">>,
    STR_PhysicalDrive \o <<"1">>,
    <<"p","h","y","s","i","c","a","l","d","r","i","v","e","1","2">>,
    STR_PhysicalDrive,
    STR_PhysicalDrive \o <<"X">> }

\* the device a path names: a disk behind a physical path, a volume behind
\* a logical one, nothing behind a path that names no device
ImagesFor(p) ==
  IF determineDriveType(p).type = PHYSICAL_DRIVE THEN PhysicalImages
  ELSE IF determineDriveType(p).type = LOGICAL_DRIVE THEN LogicalImages
  ELSE {NoImage}

(***************************************************************************)
(* Pure functions of DriveHandler                                          *)
(***************************************************************************)
RECURSIVE CStringLength(_)
\* strlen of a character array: the characters before the first NUL
CStringLength(chars) ==
  IF chars = <<>> \/ Head(chars) = NUL THEN 0
  ELSE 1 + CStringLength(Tail(chars))

\* the character set std::string::find_first_of(const char*) searches for:
\* the argument is the literal " \0", taken as a C string
FindFirstOfSet ==
  LET lit == <<" ", NUL, NUL>>
  IN  { lit[k] : k \in 1..CStringLength(lit) }

\* fsType.substr(0, fsType.find_first_of(" \0")) on the 8-byte label
TrimLabel(label) ==
  LET hits == { k \in 1..Len(label) : label[k] \in FindFirstOfSet }
  IN  IF hits = {} THEN label
      ELSE SubSeq(label, 1, (CHOOSE k \in hits : \A m \in hits : k <= m) - 1)

\* the comparisons of getFSTypeFromBootSector on the trimmed label
FSTypeOfLabel(label) ==
  LET fs == TrimLabel(label)
  IN  IF fs = <<"F","A","T","3","2">> THEN FAT32_TYPE
      ELSE IF fs = <<"N","T","F","S">> THEN NTFS_TYPE
      ELSE IF fs = <<"e","x","F","A","T">> THEN EXFAT_TYPE
      ELSE IF fs = <<"E","X","T","4">> THEN EXT4_TYPE
      ELSE UNKNOWN_TYPE

getFSTypeFromMBRPartition(type) == type

\* getFSTypeFromGPTPartition with the memcmp result taken as "equal"
getFSTypeFromGPTPartition_Inverted(guid) ==
  IF \A k \in 1..16 : guid[k] = GUID_FAT32_TYPE[k] THEN UNKNOWN_TYPE
  ELSE FAT32_TYPE

getFSTypeFromGPTPartition(guid) ==
  IF \A k \in 1..16 : guid[k] = GUID_FAT32_TYPE[k] THEN FAT32_TYPE
  ELSE UNKNOWN_TYPE

\* mbr.signature: the two trailer bytes as a little-endian uint16_t
SignatureOf(trailer) == trailer[1] + 256 * trailer[2]

isMBR(m) == m.signature = MBR_SIGNATURE

isGPT(g) == \A k \in 1..8 : g.Signature[k] = EFI_PART[k]

\* getPartitionScheme testing isMBR before isGPT
SchemeOf_MBRFirst(m, g) ==
  IF m.signature = MBR_SIGNATURE THEN MBR_SCHEME
  ELSE IF \A k \in 1..8 : g.Signature[k] = EFI_PART[k] THEN GPT_SCHEME
  ELSE UNKNOWN_SCHEME

\* the decision of getPartitionScheme once both headers are read
SchemeOf(m, g) ==
  IF isGPT(g) THEN GPT_SCHEME
  ELSE IF isMBR(m) THEN MBR_SCHEME
  ELSE UNKNOWN_SCHEME

\* getMBRPartitions testing the type byte instead of TotalSectors
getMBRPartitions_ByType(table, list) ==
  LET HasType(slot) == slot.Type # TYPE_EMPTY
  IN  list \o SelectSeq(table, HasType)

RECURSIVE MBRLoop(_, _, _)
\* the loop of getMBRPartitions from slot i on, appending to acc
MBRLoop(table, i, acc) ==
  IF i > 4 THEN acc
  ELSE MBRLoop(table, i + 1,
               IF table[i].TotalSectors # 0
                 THEN Append(acc, table[i]) ELSE acc)

getMBRPartitions(table, list) == MBRLoop(table, 1, list)

\* isEmptyGUID looking at the first byte only
isEmptyGUID_FirstByte(guid) == guid[1] = 0

\* the std::all_of test of getGPTPartitions
isEmptyGUID(guid) == \A k \in 1..16 : guid[k] = 0

\* readSector ignoring the result of the SectorReader
readSectorThrows_Never(ok) == FALSE

\* SectorReader failure is turned into an exception by readSector
readSectorThrows(ok) == ~ok

\* the empty std::unique_ptr<SectorReader>
NULL == [id |-> 0, kind |-> "nullptr", path |-> <<>>, offset |-> 0]

\* closeDrive without the reset
closeDrive_NoReset(reader) == reader

\* what closeDrive leaves in sectorReader

closeDrive(reader) == NULL

\* recoverDrive without the else-return of the unknown scheme
AfterScheme_NoReturn(scheme) ==
  IF scheme = MBR_SCHEME THEN "getMBRPartitions"
  ELSE IF scheme = GPT_SCHEME THEN "getBytesPerSector"
  ELSE "closeDrive"

\* where recoverDrive goes once the scheme is known
AfterScheme(scheme) ==
  IF scheme = MBR_SCHEME THEN "getMBRPartitions"
  ELSE IF scheme = GPT_SCHEME THEN "getBytesPerSector"
  ELSE "return"

(***************************************************************************)
(* State                                                                   *)
(***************************************************************************)
VARIABLES
  drivePath,        \* the path the handler is constructed with
  disk,             \* the device behind the path
  configDrivePath,  \* config.drivePath
  driveType,
  sectorReader,     \* the classification source, or NULL
  mbr, gpt,         \* the headers read from sector 0 and sector 1
  bootSector,       \* the FileSystemType field of the boot sector read
  bytesPerSector,
  partitionsMBR, partitionsGPT,
  partitionScheme,  \* local of recoverDrive, NoScheme until assigned
  fsType,           \* local of recoverDrive (logical branch)
  gptI,             \* loop variable i of getGPTPartitions
  partIdx,          \* position of the range-for of recoverFromPhysicalDriveFAT32
  pc,               \* the statement recoverDrive is at
  outcome,          \* "running", "returned", "threw", "ctor_threw"
  reads,            \* sectors requested from the classification source
  readCount,        \* number of readSector calls made
  readerFailed,     \* a SectorReader call has returned false
  examined,         \* entry-array byte offsets examined by getGPTPartitions
  released,         \* ids of the sources closeDrive has destroyed
  nextReaderId,     \* id of the next source to be created
  passes,           \* the recovery passes started, in order
  calls             \* recoverDrive calls begun after the first one

vars ==
  << drivePath, disk, configDrivePath, driveType, sectorReader, mbr, gpt,
     bootSector, bytesPerSector, partitionsMBR, partitionsGPT,
     partitionScheme, fsType, gptI, partIdx, pc, outcome, reads, readCount,
     readerFailed, examined, released, nextReaderId, passes, calls >>

\* partitionScheme before getPartitionScheme has returned
NoScheme == "unset"

ZeroMBR == [PartitionTable |-> <<>>, signature |-> 0]

ZeroGPT ==
  [Signature |-> [k \in 1..8 |-> NUL], PartitionEntryLBA |-> 0,
   NumberOfEntries |-> 0, SizeOfEntry |-> 0]

Init ==
  /\ drivePath \in DrivePaths
  /\ disk \in ImagesFor(drivePath)
  /\ configDrivePath = drivePath
  /\ driveType = UNKNOWN_DRIVE
  /\ sectorReader = NULL
  /\ mbr = ZeroMBR
  /\ gpt = ZeroGPT
  /\ bootSector = <<>>
  /\ bytesPerSector = 0
  /\ partitionsMBR = <<>>
  /\ partitionsGPT = <<>>
  /\ partitionScheme = NoScheme
  /\ fsType = UNKNOWN_TYPE
  /\ gptI = 0
  /\ partIdx = 1
  /\ pc = "new"
  /\ outcome = "running"
  /\ reads = {}
  /\ readCount = 0
  /\ readerFailed = FALSE
  /\ examined = <<>>
  /\ released = {}
  /\ nextReaderId = 1
  /\ passes = <<>>
  /\ calls = 0

(***************************************************************************)
(* Actions                                                                 *)
(***************************************************************************)
\* DriveHandler::readSector on the classification source: the bookkeeping
\* common to every read (the request, and whether the source failed)
ReadSectorCall(sector, ok) ==
  /\ sectorReader # NULL
  /\ reads' = reads \cup {sector}
  /\ readCount' = readCount + 1
  /\ readerFailed' = (readerFailed \/ ~ok)

\* a std::runtime_error leaves recoverDrive
Throw ==
  /\ pc' = "done"
  /\ outcome' = "threw"

\* the constructor: determineDriveType, then initializeSectorReader
Construct ==
  /\ pc = "new"
  /\ LET d == determineDriveType(drivePath)
     IN  /\ driveType' = d.type
         /\ configDrivePath' = d.path
         /\ IF d.type = LOGICAL_DRIVE THEN
              /\ sectorReader' = [id |-> nextReaderId, kind |-> "LogicalDriveReader",
                                  path |-> d.path, offset |-> 0]
              /\ nextReaderId' = nextReaderId + 1
              /\ pc' = "recoverDrive"
              /\ outcome' = outcome
            ELSE IF d.type = PHYSICAL_DRIVE THEN
              /\ sectorReader' = [id |-> nextReaderId, kind |-> "PhysicalDriveReader",
                                  path |-> d.path, offset |-> 0]
              /\ nextReaderId' = nextReaderId + 1
              /\ pc' = "recoverDrive"
              /\ outcome' = outcome
            ELSE
              /\ pc' = "done"
              /\ outcome' = "ctor_threw"
              /\ UNCHANGED <<sectorReader, nextReaderId>>
  /\ UNCHANGED <<calls, drivePath, disk, mbr, gpt, bootSector, bytesPerSector,
                 partitionsMBR, partitionsGPT, partitionScheme, fsType, gptI,
                 partIdx, reads, readCount, readerFailed, examined, released,
                 passes>>

\* recoverDrive, logical branch: getFSTypeFromBootSector(0)
GetFSTypeFromBootSector ==
  /\ pc = "recoverDrive"
  /\ driveType = LOGICAL_DRIVE
  /\ \E ok \in BOOLEAN :
       /\ ReadSectorCall(0, ok)
       /\ IF readSectorThrows(ok) THEN
            /\ Throw
            /\ UNCHANGED <<bootSector, fsType>>
          ELSE
            /\ bootSector' = (IF ok THEN disk.label ELSE bootSector)
            /\ fsType' = FSTypeOfLabel(bootSector')
            /\ pc' = "closeDrive"
            /\ outcome' = outcome
  /\ UNCHANGED <<calls, drivePath, disk, configDrivePath, driveType, sectorReader,
                 mbr, gpt, bytesPerSector, partitionsMBR, partitionsGPT,
                 partitionScheme, gptI, partIdx, examined, released,
                 nextReaderId, passes>>

\* recoverDrive, physical branch: getPartitionScheme calls readMBR
ReadMBR ==
  /\ pc = "recoverDrive"
  /\ driveType = PHYSICAL_DRIVE
  /\ \E ok \in BOOLEAN :
       /\ ReadSectorCall(0, ok)
       /\ IF readSectorThrows(ok) THEN
            /\ Throw
            /\ mbr' = mbr
          ELSE
            /\ mbr' = (IF ok THEN [PartitionTable |-> disk.table,
                                   signature |-> SignatureOf(disk.trailer)]
                             ELSE mbr)
            /\ pc' = "readGPT"
            /\ outcome' = outcome
  /\ UNCHANGED <<calls, drivePath, disk, configDrivePath, driveType, sectorReader,
                 gpt, bootSector, bytesPerSector, partitionsMBR,
                 partitionsGPT, partitionScheme, fsType, gptI, partIdx,
                 examined, released, nextReaderId, passes>>

\* getPartitionScheme: readGPT, then the isGPT / isMBR decision, then the
\* dispatch of recoverDrive on the scheme
ReadGPT ==
  /\ pc = "readGPT"
  /\ \E ok \in BOOLEAN :
       /\ ReadSectorCall(1, ok)
       /\ IF readSectorThrows(ok) THEN
            /\ Throw
            /\ UNCHANGED <<gpt, partitionScheme>>
          ELSE
            /\ gpt' = (IF ok THEN [Signature |-> disk.Signature,
                                   PartitionEntryLBA |-> disk.PartitionEntryLBA,
                                   NumberOfEntries |-> disk.NumberOfEntries,
                                   SizeOfEntry |-> disk.SizeOfEntry]
                             ELSE gpt)
            /\ partitionScheme' = SchemeOf(mbr, gpt')
            /\ IF AfterScheme(partitionScheme') = "return"
                 THEN pc' = "done" /\ outcome' = "returned"
                 ELSE pc' = AfterScheme(partitionScheme') /\ outcome' = outcome
  /\ UNCHANGED <<calls, drivePath, disk, configDrivePath, driveType, sectorReader,
                 mbr, bootSector, bytesPerSector, partitionsMBR,
                 partitionsGPT, fsType, gptI, partIdx, examined, released,
                 nextReaderId, passes>>

\* recoverDrive, MBR branch: getMBRPartitions
GetMBRPartitions ==
  /\ pc = "getMBRPartitions"
  /\ partitionsMBR' = getMBRPartitions(mbr.PartitionTable, partitionsMBR)
  /\ pc' = "closeDrive"
  /\ UNCHANGED <<calls, drivePath, disk, configDrivePath, driveType, sectorReader,
                 mbr, gpt, bootSector, bytesPerSector, partitionsGPT,
                 partitionScheme, fsType, gptI, partIdx, outcome, reads,
                 readCount, readerFailed, examined, released, nextReaderId,
                 passes>>

\* recoverDrive, GPT branch: getBytesPerSector
GetBytesPerSector ==
  /\ pc = "getBytesPerSector"
  /\ sectorReader # NULL
  /\ \E ok \in BOOLEAN, size \in SectorSizes :
       /\ readerFailed' = (readerFailed \/ ~ok)
       /\ IF ~ok THEN
            /\ Throw
            /\ UNCHANGED <<bytesPerSector, gptI>>
          ELSE
            /\ bytesPerSector' = size
            /\ gptI' = 0
            /\ pc' = "getGPTPartitions"
            /\ outcome' = outcome
  /\ UNCHANGED <<calls, drivePath, disk, configDrivePath, driveType, sectorReader,
                 mbr, gpt, bootSector, partitionsMBR, partitionsGPT,
                 partitionScheme, fsType, partIdx, reads, readCount,
                 examined, released, nextReaderId, passes>>

\* getGPTPartitions: const uint32_t entriesPerSector
entriesPerSector(g, bps) == bps \div g.SizeOfEntry

\* getGPTPartitions: uint64_t currentLBA of the iteration at entry index i
currentLBA(g, bps, i) == g.PartitionEntryLBA + (i * g.SizeOfEntry) \div bps

\* what lies at byte offset off of the partition-entry array of the device:
\* a slot when a slot begins there, other bytes of the device otherwise
EntryAt(off, other) ==
  IF /\ off >= 0
     /\ off % disk.SizeOfEntry = 0
     /\ off \div disk.SizeOfEntry < Len(disk.entries)
    THEN disk.entries[off \div disk.SizeOfEntry + 1]
    ELSE other

\* bytes that are not a slot of the array, read as an entry
OtherEntries == { GPTSlot(0, g) : g \in TypeGUIDs }

\* one iteration of the outer loop of getGPTPartitions: read the sector of
\* entry i, examine the entries of that sector, advance i
GPTReadSector ==
  /\ pc = "getGPTPartitions"
  /\ gptI < gpt.NumberOfEntries
  /\ readCount < MaxReads
  /\ \E ok \in BOOLEAN, other \in OtherEntries :
       LET eps   == entriesPerSector(gpt, bytesPerSector)
           lba   == currentLBA(gpt, bytesPerSector, gptI)
           left  == gpt.NumberOfEntries - gptI
           cnt   == IF eps < left THEN eps ELSE left
           base  == (lba - disk.PartitionEntryLBA) * bytesPerSector
           offs  == [j \in 1..cnt |-> base + (j - 1) * gpt.SizeOfEntry]
           batch == [j \in 1..cnt |->
                       IF ok THEN EntryAt(offs[j], other) ELSE other]
           Present(e) == ~isEmptyGUID(e.PartitionTypeGUID)
       IN  /\ ReadSectorCall(lba, ok)
           /\ IF readSectorThrows(ok) THEN
                /\ Throw
                /\ UNCHANGED <<partitionsGPT, examined, gptI>>
              ELSE
                /\ partitionsGPT' = partitionsGPT \o SelectSeq(batch, Present)
                /\ examined' = examined \o offs
                /\ gptI' = gptI + eps
                /\ UNCHANGED <<pc, outcome>>
  /\ UNCHANGED <<calls, drivePath, disk, configDrivePath, driveType, sectorReader,
                 mbr, gpt, bootSector, bytesPerSector, partitionsMBR,
                 partitionScheme, fsType, partIdx, released, nextReaderId,
                 passes>>

\* the outer loop of getGPTPartitions ends
GPTLoopExit ==
  /\ pc = "getGPTPartitions"
  /\ gptI >= gpt.NumberOfEntries
  /\ pc' = "closeDrive"
  /\ UNCHANGED <<calls, drivePath, disk, configDrivePath, driveType, sectorReader,
                 mbr, gpt, bootSector, bytesPerSector, partitionsMBR,
                 partitionsGPT, partitionScheme, fsType, gptI, partIdx,
                 outcome, reads, readCount, readerFailed, examined, released,
                 nextReaderId, passes>>

\* recoverDrive: closeDrive(), then the recovery entry point of the branch
CloseDrive ==
  /\ pc = "closeDrive"
  /\ sectorReader' = (IF sectorReader # NULL THEN closeDrive(sectorReader)
                                             ELSE sectorReader)
  /\ released' = (IF sectorReader # NULL /\ sectorReader' = NULL
                    THEN released \cup {sectorReader.id} ELSE released)
  /\ IF driveType = LOGICAL_DRIVE THEN
       IF fsType = FAT32_TYPE
         THEN pc' = "recoverFromLogicalDriveFAT32" /\ outcome' = outcome
         ELSE pc' = "done" /\ outcome' = "returned"
     ELSE
       pc' = "recoverFromPhysicalDriveFAT32" /\ outcome' = outcome
  /\ partIdx' = 1
  /\ UNCHANGED <<calls, drivePath, disk, configDrivePath, driveType, mbr, gpt,
                 bootSector, bytesPerSector, partitionsMBR, partitionsGPT,
                 partitionScheme, fsType, gptI, reads, readCount,
                 readerFailed, examined, nextReaderId, passes>>

\* a FAT32Recovery with a sector source of its own, run to completion:
\* scanForDeletedFiles(0), then recoverAllFiles()
RecoveryPass(target, index, kind, offset) ==
  [target |-> target, index |-> index,
   reader |-> [id |-> nextReaderId, kind |-> kind,
               path |-> configDrivePath, offset |-> offset],
   calls  |-> <<"scanForDeletedFiles", "recoverAllFiles">>]

\* recoverFromLogicalDriveFAT32
RecoverFromLogicalDriveFAT32 ==
  /\ pc = "recoverFromLogicalDriveFAT32"
  /\ passes' = Append(passes, RecoveryPass("logical", 0, "LogicalDriveReader", 0))
  /\ nextReaderId' = nextReaderId + 1
  /\ pc' = "done"
  /\ outcome' = "returned"
  /\ UNCHANGED <<calls, drivePath, disk, configDrivePath, driveType, sectorReader,
                 mbr, gpt, bootSector, bytesPerSector, partitionsMBR,
                 partitionsGPT, partitionScheme, fsType, gptI, partIdx,
                 reads, readCount, readerFailed, examined, released>>

\* the list recoverFromPhysicalDriveFAT32 iterates over
PartitionsOf(scheme) ==
  IF scheme = MBR_SCHEME THEN partitionsMBR
  ELSE IF scheme = GPT_SCHEME THEN partitionsGPT
  ELSE <<>>

\* the filesystem type recoverFromPhysicalDriveFAT32 derives for a partition
DeclaredFSType(scheme, partition) ==
  IF scheme = MBR_SCHEME THEN getFSTypeFromMBRPartition(partition.Type)
  ELSE getFSTypeFromGPTPartition(partition.PartitionTypeGUID)

\* the start LBA the recovery of a partition is scoped to
StartLBAOf(scheme, partition) ==
  IF scheme = MBR_SCHEME THEN partition.StartLBA ELSE partition.StartingLBA

\* one iteration of the range-for of recoverFromPhysicalDriveFAT32
RecoverPartition ==
  /\ pc = "recoverFromPhysicalDriveFAT32"
  /\ partitionScheme \in {MBR_SCHEME, GPT_SCHEME}
  /\ partIdx <= Len(PartitionsOf(partitionScheme))
  /\ LET partition == PartitionsOf(partitionScheme)[partIdx]
     IN  IF DeclaredFSType(partitionScheme, partition) = FAT32_TYPE THEN
           /\ passes' = Append(passes,
                  RecoveryPass(IF partitionScheme = MBR_SCHEME THEN "mbr" ELSE "gpt",
                               partIdx, "PhysicalDriveReader",
                               StartLBAOf(partitionScheme, partition)))
           /\ nextReaderId' = nextReaderId + 1
         ELSE
           UNCHANGED <<passes, nextReaderId>>
  /\ partIdx' = partIdx + 1
  /\ UNCHANGED <<calls, drivePath, disk, configDrivePath, driveType, sectorReader,
                 mbr, gpt, bootSector, bytesPerSector, partitionsMBR,
                 partitionsGPT, partitionScheme, fsType, gptI, pc, outcome,
                 reads, readCount, readerFailed, examined, released>>

\* recoverFromPhysicalDriveFAT32 leaves: return after the loop of a known
\* scheme, the runtime_error for any other scheme
RecoverFromPhysicalDriveFAT32End ==
  /\ pc = "recoverFromPhysicalDriveFAT32"
  /\ \/ partitionScheme \notin {MBR_SCHEME, GPT_SCHEME}
     \/ partIdx > Len(PartitionsOf(partitionScheme))
  /\ pc' = "done"
  /\ outcome' = (IF partitionScheme \in {MBR_SCHEME, GPT_SCHEME}
                   THEN "returned" ELSE "threw")
  /\ UNCHANGED <<calls, drivePath, disk, configDrivePath, driveType, sectorReader,
                 mbr, gpt, bootSector, bytesPerSector, partitionsMBR,
                 partitionsGPT, partitionScheme, fsType, gptI, partIdx,
                 reads, readCount, readerFailed, examined, released,
                 nextReaderId, passes>>

Next ==
  \/ Construct
  \/ GetFSTypeFromBootSector
  \/ ReadMBR
  \/ ReadGPT
  \/ GetMBRPartitions
  \/ GetBytesPerSector
  \/ GPTReadSector
  \/ GPTLoopExit
  \/ CloseDrive
  \/ RecoverFromLogicalDriveFAT32
  \/ RecoverPartition
  \/ RecoverFromPhysicalDriveFAT32End

Spec == Init /\ [][Next]_vars

(***************************************************************************)
(* Further recoverDrive calls on the same handler                          *)
(***************************************************************************)
\* recoverDrive is public and is called again on a constructed handler,
\* after an earlier call returned or threw: the members keep their values
\* (sectorReader, the partition lists), the locals of the call are new
RecoverDriveAgain ==
  /\ pc = "done"
  /\ outcome \in {"returned", "threw"}
  /\ calls < MaxRecalls
  /\ calls' = calls + 1
  /\ pc' = "recoverDrive"
  /\ outcome' = "running"
  /\ partitionScheme' = NoScheme
  /\ fsType' = UNKNOWN_TYPE
  /\ reads' = {}
  /\ readCount' = 0
  /\ readerFailed' = FALSE
  /\ UNCHANGED <<drivePath, disk, configDrivePath, driveType, sectorReader,
                 mbr, gpt, bootSector, bytesPerSector, partitionsMBR,
                 partitionsGPT, gptI, partIdx, examined, released,
                 nextReaderId, passes>>

\* what a call through the empty unique_ptr can end in
UndefinedOutcomes == {"crashed", "returned", "threw"}

\* the first statement of either branch of recoverDrive is a readSector of
\* sector 0 (readBootSector, readMBR); readSector dereferences sectorReader
\* without a test, so after closeDrive the call goes through the empty
\* pointer: undefined behaviour
ReadOnReleasedSource ==
  /\ pc = "recoverDrive"
  /\ sectorReader = NULL
  /\ reads' = reads \cup {0}
  /\ readCount' = readCount + 1
  /\ pc' = "done"
  /\ outcome' \in UndefinedOutcomes
  /\ UNCHANGED <<calls, drivePath, disk, configDrivePath, driveType,
                 sectorReader, mbr, gpt, bootSector, bytesPerSector,
                 partitionsMBR, partitionsGPT, partitionScheme, fsType, gptI,
                 partIdx, readerFailed, examined, released, nextReaderId,
                 passes>>

NextRecall ==
  \/ Next
  \/ RecoverDriveAgain
  \/ ReadOnReleasedSource

SpecRecall == Init /\ [][NextRecall]_vars

(***************************************************************************)
(* Properties                                                              *)
(***************************************************************************)
\* getGPTPartitions has run to its end
GPTPartitionsDone ==
  /\ partitionScheme = GPT_SCHEME
  /\ \/ pc \in {"closeDrive", "recoverFromPhysicalDriveFAT32"}
     \/ pc = "done" /\ outcome = "returned"

\* the header describes the format's array: whole entries per sector
WholeEntriesPerSector ==
  /\ gpt.SizeOfEntry > 0
  /\ bytesPerSector % gpt.SizeOfEntry = 0

NonZeroTypeGUID(e) == e.PartitionTypeGUID # ZeroGUID

MBRPartitionsDone ==
  /\ partitionScheme = MBR_SCHEME
  /\ pc # "getMBRPartitions"

NonZeroTotalSectors(slot) == slot.TotalSectors # 0

\* C2: for an MBR sector with N slots whose total-sector field is nonzero
\* and 4-N slots whose field is zero, getMBRPartitions run on an empty list
\* yields exactly the N nonzero slots, in table order.
C2_MBRPartitionsExact ==
  MBRPartitionsDone =>
     /\ partitionsMBR = SelectSeq(disk.table, NonZeroTotalSectors)
     /\ Len(partitionsMBR) =
          Cardinality({k \in 1..4 : disk.table[k].TotalSectors # 0})
     /\ \A a, b \in 1..Len(partitionsMBR) :
          a < b => partitionsMBR[a].StartLBA < partitionsMBR[b].StartLBA

\* a table with a zero slot before two nonzero ones, and a zero-sector slot
\* that still carries a type byte
C2_Witness ==
  /\ MBRPartitionsDone
  /\ Len(partitionsMBR) = 2
  /\ disk.table[1].TotalSectors = 0
  /\ \E k \in 1..4 : disk.table[k].TotalSectors = 0 /\ disk.table[k].Type # TYPE_EMPTY

\* C3: getPartitionScheme reads sector 0 and sector 1 and returns GPT
\* whenever sector 1 starts with "EFI PART" (also with a valid MBR
\* signature in sector 0), MBR when sector 1 lacks that signature and the
\* last two bytes of sector 0 are 0x55 0xAA, Unknown otherwise.
C3_SchemePrecedence ==
  partitionScheme # NoScheme =>
     /\ {0, 1} \subseteq reads
     /\ partitionScheme =
          (IF disk.Signature = EFI_PART THEN GPT_SCHEME
           ELSE IF disk.trailer = <<85, 170>> THEN MBR_SCHEME
           ELSE UNKNOWN_SCHEME)

\* a disk with both a valid MBR signature and a GPT header, classified GPT
C3_Witness ==
  /\ partitionScheme = GPT_SCHEME
  /\ disk.trailer = <<85, 170>>
  /\ mbr.signature = MBR_SIGNATURE

\* the two path patterns of the specification
IsBareNumber(p) == Len(p) >= 1 /\ \A k \in 1..Len(p) : p[k] \in DigitChars

IsLetterOrLetterColon(p) ==
  \/ Len(p) = 1 /\ iswalpha(p[1])
  \/ Len(p) = 2 /\ iswalpha(p[1]) /\ p[2] = ":"

\* C4: a bare number (one or more digits) is classified as a physical drive
\* with that number as index, a letter or letter-colon as a logical volume,
\* and any other input is rejected: construction fails and no sector source
\* is created.
C4_PathClassification ==
  pc # "new" =>
     /\ IsBareNumber(drivePath) =>
          /\ driveType = PHYSICAL_DRIVE
          /\ configDrivePath = DevicePrefix \o STR_PhysicalDrive \o drivePath
     /\ IsLetterOrLetterColon(drivePath) => driveType = LOGICAL_DRIVE
     /\ (~IsBareNumber(drivePath) /\ ~IsLetterOrLetterColon(drivePath)) =>
          /\ outcome = "ctor_threw"
          /\ sectorReader = NULL
          /\ nextReaderId = 1

\* the label cut at the first space or NUL
CutAtSpaceOrNUL(label) ==
  LET hits == { k \in 1..Len(label) : label[k] = " " \/ label[k] = NUL }
  IN  IF hits = {} THEN label
      ELSE SubSeq(label, 1, (CHOOSE k \in hits : \A m \in hits : k <= m) - 1)

\* C5: getFSTypeFromBootSector cuts the 8-byte label at the first space or
\* NUL and returns FAT32, NTFS, exFAT or EXT4 exactly when the remaining
\* prefix equals that name, Unknown otherwise; "FAT32" padded with NULs is
\* FAT32 just as "FAT32" padded with spaces.
C5_LabelTrimmedAtSpaceOrNUL ==
  bootSector # <<>> =>
     fsType =
       (LET fs == CutAtSpaceOrNUL(bootSector)
        IN  IF fs = <<"F","A","T","3","2">> THEN FAT32_TYPE
            ELSE IF fs = <<"N","T","F","S">> THEN NTFS_TYPE
            ELSE IF fs = <<"e","x","F","A","T">> THEN EXFAT_TYPE
            ELSE IF fs = <<"E","X","T","4">> THEN EXT4_TYPE
            ELSE UNKNOWN_TYPE)

\* recoverFromPhysicalDriveFAT32 has been entered
InPhysicalRecovery ==
  /\ driveType = PHYSICAL_DRIVE
  /\ \/ pc = "recoverFromPhysicalDriveFAT32"
     \/ pc = "done" /\ released # {}

\* the declared type of an extracted partition identifies FAT32
IsFAT32Declared(partition) ==
  IF partitionScheme = MBR_SCHEME
    THEN partition.Type = FAT32_TYPE
    ELSE partition.PartitionTypeGUID = GUID_FAT32_TYPE

\* positions, in list order, of the FAT32 partitions among the first n
FAT32Positions(n) ==
  LET parts == PartitionsOf(partitionScheme)
      IsFAT32At(k) == IsFAT32Declared(parts[k])
  IN  SelectSeq([k \in 1..n |-> k], IsFAT32At)

\* C6: in recoverFromPhysicalDriveFAT32 a recovery pass (scanForDeletedFiles
\* then recoverAllFiles) is started for exactly the partitions whose declared
\* type identifies FAT32, in partition-table order; a partition of another
\* type is skipped without an error and the partitions after it are still
\* processed.
C6_PassesExactlyFAT32 ==
  InPhysicalRecovery =>
     /\ outcome # "threw"
     /\ [k \in 1..Len(passes) |-> passes[k].index] = FAT32Positions(partIdx - 1)
     /\ \A k \in 1..Len(passes) :
          passes[k].calls = <<"scanForDeletedFiles", "recoverAllFiles">>
     /\ pc = "done" => partIdx = Len(PartitionsOf(partitionScheme)) + 1

\* a finished run in which a partition of another type lies between two
\* FAT32 partitions that both got their pass
C6_Witness ==
  /\ InPhysicalRecovery
  /\ pc = "done"
  /\ Len(passes) = 2
  /\ passes[2].index - passes[1].index > 1

\* C7: when neither signature validates on a physical device, recoverDrive
\* returns normally, extracts no partitions and starts no recovery pass.
C7_UnknownSchemeReturns ==
  partitionScheme = UNKNOWN_SCHEME =>
     /\ pc = "done"
     /\ outcome = "returned"
     /\ partitionsMBR = <<>>
     /\ partitionsGPT = <<>>
     /\ passes = <<>>

\* a device with partition-table slots but neither signature, abandoned
C7_Witness ==
  /\ partitionScheme = UNKNOWN_SCHEME
  /\ pc = "done"
  /\ disk.trailer = <<170, 85>>
  /\ \E k \in 1..4 : disk.table[k].Type = FAT32_TYPE /\ disk.table[k].TotalSectors # 0

\* the offset of the target of a recovery pass
TargetOffset(pass) ==
  IF pass.target = "logical" THEN 0
  ELSE IF pass.target = "mbr" THEN partitionsMBR[pass.index].StartLBA
  ELSE partitionsGPT[pass.index].StartingLBA

\* C8: the classification source is closed before any recovery pass opens a
\* source; every pass uses a freshly created source scoped to its target's
\* offset (start LBA of the partition, 0 for a logical volume); the
\* classification source is never used by a pass.
C8_FreshSourcePerPass ==
  \A k \in 1..Len(passes) :
     /\ sectorReader = NULL
     /\ released # {}
     /\ passes[k].reader.id \notin released
     /\ \A m \in 1..Len(passes) : m # k => passes[m].reader.id # passes[k].reader.id
     /\ passes[k].reader.offset = TargetOffset(passes[k])
     /\ passes[k].reader.path = configDrivePath

\* two passes at two different start LBAs after the classification source
\* was closed
C8_Witness ==
  /\ Len(passes) = 2
  /\ passes[1].reader.offset # passes[2].reader.offset
  /\ passes[1].reader.offset > 0
  /\ sectorReader = NULL

\* C9: a failure of the sector source during classification (any readSector
\* call returning false, or the bytes-per-sector query failing) ends
\* recoverDrive with an error and no recovery pass is started, even when the
\* data already read would have sufficed to pick a scheme.
C9_ReadFailureFatal ==
  readerFailed =>
     /\ pc = "done"
     /\ outcome = "threw"
     /\ passes = <<>>

\* sector 0 was read and holds a valid MBR with a FAT32 partition, the read
\* of sector 1 failed
C9_Witness ==
  /\ readerFailed
  /\ readCount = 2
  /\ mbr.signature = MBR_SIGNATURE
  /\ disk.Signature # EFI_PART
  /\ \E k \in 1..4 : disk.table[k].Type = FAT32_TYPE /\ disk.table[k].TotalSectors # 0

\* C10: getGPTPartitions terminates for every header and sector size, also
\* when SizeOfEntry exceeds bytesPerSector or does not divide it: every
\* iteration of the entry-reading loop advances the entry index.
C10_LoopMakesProgress ==
  [][(pc = "getGPTPartitions" /\ pc' = "getGPTPartitions") => gptI' > gptI]_vars

\* a step that issues a sector read or a bytes-per-sector query
IssuesSourceCall ==
  \/ readCount' # readCount
  \/ pc = "getBytesPerSector" /\ pc' # pc

\* C11: over any sequence of recoverDrive calls on a constructed handler, a
\* sector read or bytes-per-sector query is only issued while the handler
\* holds a sector source; once closeDrive has released the classification
\* source no later step, a second recoverDrive call included, reads through
\* it.
C11_ReadsOnlyWhileSourceHeld ==
  [][(IssuesSourceCall /\ pc # "done") => sectorReader # NULL]_vars

=============================================================================
